---- MODULE Spec2Model ----
(***************************************************************************)
(* Model of the Medi-Minds realtime relay (backend/api_server.py and       *)
(* backend/tools/multiply.py).                                             *)
(*                                                                         *)
(* One websocket_endpoint invocation is a "connection" k.  It owns two     *)
(* cooperative tasks: the command loop (ep[k]) and the realtime task       *)
(* (rt[k]) running ConnectionManager.handle_realtime_connection.  The      *)
(* ConnectionManager dictionaries are functions whose DOMAIN is the set of *)
(* client ids currently holding an entry.  Every await of a handler that   *)
(* is followed by further code is a scheduling point, so a command handler *)
(* is a sequence of steps (phases) between which the other task may run.   *)
(***************************************************************************)
EXTENDS Integers, Sequences, FiniteSets, TLC

\* ---------------------------------------------------------------- bounds
MaxText  == 2   \* transcript deltas held in one client's accumulator
MaxGen   == 2   \* start_recording commands counted per connection

\* ------------------------------------------------------------ value sets
NULL    == "None"
Clients == {"c1", "c2"}
Conns   == {1, 2}
Items   == {"i1", "i2"}
Deltas  == {"a", "b"}
Chunks  == {"x", "y"}
SessionIds == {"s1", NULL}

VARIABLES
  active_connections,    \* client id -> websocket (connection number)
  realtime_connections,  \* client id -> upstream connection (number of the task that opened it)
  sessions,              \* client id -> session id
  acc_items,             \* client id -> (item id -> transcript text)
  last_audio_item_ids,   \* client id -> item id or NULL
  can_accept_audio,      \* client id -> BOOLEAN
  valid_audio_item_ids,  \* client id -> set of item ids
  audio_generation,      \* client id -> Nat
  ep,                    \* connection -> [pc, cid, conn]: the websocket_endpoint coroutine
  rt,                    \* connection -> [pc, cid]: the realtime task
  last,                  \* the input handled by the last step
  sent,                  \* messages written to websockets by the last step
  up,                    \* upstream operations attempted by the last step
  firstAfterReset,       \* history: client id -> first audio item id seen since the last reset
  watch,                 \* history: the item id whose transcript forwards are followed
  prevFwd,               \* history: client id -> last transcript text forwarded for watch
  genChanged,            \* history: client id -> generation changed since that forward
  accCleared,            \* history: client id -> accumulator cleared since that forward
  shake,                 \* history: client id -> progress of the cancel/clear handshake
  window,                \* history: client id -> a start_recording completed, no stop since
  stale,                 \* history: client id -> watch was trusted when a hard_stop came
  traceOn,               \* scenario observer: "no" (not used), "on" or "off"
  hist,                  \* scenario observer: inputs received, in order
  uplog,                 \* scenario observer: upstream operations, in order
  clog                   \* scenario observer: messages to clients, in order

maps   == <<active_connections, realtime_connections, sessions, acc_items,
           last_audio_item_ids, can_accept_audio, valid_audio_item_ids,
           audio_generation>>
tasks  == <<ep, rt>>
outs   == <<last, sent, up>>
ghosts == <<firstAfterReset, watch, prevFwd, genChanged, accCleared, shake, window,
            stale>>
traces == <<traceOn, hist, uplog, clog>>
vars   == <<maps, tasks, outs, ghosts, traces>>

\* ------------------------------------------------------ dictionary helpers
EmptyMap      == [x \in {} |-> NULL]
Put(m, c, v)  == [x \in (DOMAIN m) \cup {c} |-> IF x = c THEN v ELSE m[x]]
Del(m, c)     == [x \in (DOMAIN m) \ {c} |-> m[x]]
Get(m, c, d)  == IF c \in DOMAIN m THEN m[c] ELSE d

\* The record kept in "last": which connection's task took the step, the
\* event type or command it handled, the phase of a multi-step handler, and
\* the payload fields the handlers read.
In(k, op, phase, item, data, calls) ==
  [k |-> k, op |-> op, phase |-> phase, item |-> item, data |-> data, calls |-> calls]

\* send_personal_message: nothing when the client id has no websocket.
SendPersonal(message, client_id) ==
  IF client_id \in DOMAIN active_connections
    THEN <<[ws |-> active_connections[client_id], msg |-> message]>>
    ELSE <<>>

\* The upstream connection registered for a client is usable while the task
\* that opened it is still inside its "async with" block.
ConnOpen(j) == rt[j].pc \in {"setup", "loop"}

UpOp(j, op, arg) == [conn |-> j, op |-> op, arg |-> arg, ok |-> ConnOpen(j)]


\* ------------------------------------------------------ history variables
\* Observe is conjoined to every action: it records, from the step's input
\* (last'), its outputs (sent', up') and the dictionaries before and after,
\* what the properties below need to remember.  It constrains no program
\* variable.
IsReset(L) ==
  \/ L.op \in {"connect", "response.created"}
  \/ L.op = "start_recording" /\ L.phase = 1

FwdTranscript(S) == S # <<>> /\ S[1].msg.type = "transcript_delta"
FwdAudio(S)      == S # <<>> /\ S[1].msg.type = "audio_delta"

IsInput(L) == L.phase = 1

\* The history of a client is forgotten when its connection ends.
Gone(L) == L.op = "disconnect"

\* The scenario observer follows a connection from connect for as long as
\* its inputs follow one of the scripts, and keeps the inputs, the upstream
\* operations and the client messages of that run.
ScriptA == <<"start_recording", "audio_chunk", "audio_chunk", "stop_recording">>
ScriptC == <<"response.output_audio.delta", "start_recording", "response.output_audio.delta">>
Scripts == {ScriptA, ScriptC}
Follows(h) ==
  \E s \in Scripts : Len(h) <= Len(s) /\ \A n \in 1..Len(h) : h[n].op = s[n]

Observe(k) ==
  LET L == last'
      c == ep'[k].cid
  IN
  /\ firstAfterReset' = [firstAfterReset EXCEPT ![c] =
        IF IsReset(L) \/ Gone(L) THEN NULL
        ELSE IF L.op = "response.output_audio.delta" /\ @ = NULL THEN L.item
        ELSE @]
  /\ watch' = watch
  /\ prevFwd' = [prevFwd EXCEPT ![c] =
        IF L.op = "connect" \/ Gone(L) THEN <<>>
        ELSE IF FwdTranscript(sent') /\ L.item = watch THEN sent'[1].msg.text
        ELSE @]
  /\ genChanged' = [genChanged EXCEPT ![c] =
        IF L.op = "connect" \/ Gone(L) THEN FALSE
        ELSE IF Get(audio_generation', c, 0) # Get(audio_generation, c, 0) THEN TRUE
        ELSE IF FwdTranscript(sent') /\ L.item = watch THEN FALSE
        ELSE @]
  /\ accCleared' = [accCleared EXCEPT ![c] =
        IF L.op = "connect" \/ Gone(L) THEN FALSE
        ELSE IF L.op \in {"start_recording", "hard_stop"} /\ L.phase = 3 THEN TRUE
        ELSE IF FwdTranscript(sent') /\ L.item = watch THEN FALSE
        ELSE @]
  /\ shake' = [shake EXCEPT ![c] =
        IF L.op = "connect" \/ Gone(L) THEN "none"
        ELSE IF L.op \in {"stop_recording", "hard_stop"} /\ L.phase = 1 THEN "none"
        ELSE IF /\ L.op = "start_recording" /\ L.phase = 1 /\ @ = "none"
                /\ \E n \in 1..Len(up') : up'[n].op = "response.cancel" /\ up'[n].ok
          THEN "cancelled"
        ELSE IF /\ L.op = "start_recording" /\ L.phase = 2 /\ @ = "cancelled"
                /\ \E n \in 1..Len(up') : up'[n].op = "input_audio_buffer.clear"
          THEN "cleared"
        ELSE @]
  /\ window' = [window EXCEPT ![c] =
        IF L.op = "connect" \/ Gone(L) THEN FALSE
        ELSE IF L.op \in {"stop_recording", "hard_stop"} /\ L.phase = 1 THEN FALSE
        ELSE IF L.op = "start_recording" /\ L.phase = 3 THEN TRUE
        ELSE @]
  /\ stale' = [stale EXCEPT ![c] =
        IF L.op = "connect" \/ Gone(L) THEN "no"
        ELSE IF watch \notin Get(valid_audio_item_ids', c, {}) THEN "no"
        ELSE IF L.op = "hard_stop" /\ L.phase = 1
          THEN IF watch \in Get(valid_audio_item_ids, c, {}) THEN "pending" ELSE "no"
        ELSE IF /\ L.op = "hard_stop" /\ L.phase = 3 /\ @ = "pending"
                /\ \E n \in 1..Len(sent') : sent'[n].msg.type = "hard_stopped"
          THEN "acked"
        ELSE @]
  /\ LET h == Append(hist, [op |-> L.op, item |-> L.item, data |-> L.data,
                            open |-> /\ c \in DOMAIN realtime_connections
                                     /\ ConnOpen(realtime_connections[c])])
     IN
     IF traceOn = "no" THEN UNCHANGED traces
     ELSE IF L.op = "connect"
       THEN traceOn' = "on" /\ hist' = <<>> /\ uplog' = <<>> /\ clog' = <<>>
     ELSE IF traceOn = "off" \/ Gone(L) \/ (IsInput(L) /\ ~Follows(h))
       THEN traceOn' = "off" /\ hist' = <<>> /\ uplog' = <<>> /\ clog' = <<>>
     ELSE /\ traceOn' = "on"
          /\ hist' = IF IsInput(L) THEN h ELSE hist
          /\ uplog' = uplog \o up'
          /\ clog'  = clog \o sent'

\* ------------------------------------------------------------- lifecycle
\* websocket_endpoint up to its first receive_json: manager.connect, then
\* asyncio.create_task(handle_realtime_connection).  A connection number
\* is used again only after its disconnect: until then active_connections
\* may still hold its websocket.
Connect(k, c) ==
  /\ ep[k].pc \in {"none", "done"}
  /\ rt[k].pc \notin {"start", "setup", "loop"}
  /\ active_connections'   = Put(active_connections, c, k)
  /\ acc_items'            = Put(acc_items, c, [i \in {} |-> <<>>])
  /\ last_audio_item_ids'  = Put(last_audio_item_ids, c, NULL)
  /\ can_accept_audio'     = Put(can_accept_audio, c, FALSE)
  /\ valid_audio_item_ids' = Put(valid_audio_item_ids, c, {})
  /\ audio_generation'     = Put(audio_generation, c, 0)
  /\ UNCHANGED <<realtime_connections, sessions>>
  /\ ep' = [ep EXCEPT ![k] = [pc |-> "recv", cid |-> c, conn |-> 0]]
  /\ rt' = [rt EXCEPT ![k] = [pc |-> "start", cid |-> c]]
  /\ last' = In(k, "connect", 0, NULL, NULL, <<>>)
  /\ sent' = <<>>
  /\ up' = <<>>
  /\ Observe(k)

\* ConnectionManager.disconnect: every dictionary drops the client id.
DisconnectMapsKeepGeneration(c) ==
  /\ active_connections'   = Del(active_connections, c)
  /\ realtime_connections' = Del(realtime_connections, c)
  /\ sessions'             = Del(sessions, c)
  /\ acc_items'            = Del(acc_items, c)
  /\ last_audio_item_ids'  = Del(last_audio_item_ids, c)
  /\ can_accept_audio'     = Del(can_accept_audio, c)
  /\ valid_audio_item_ids' = Del(valid_audio_item_ids, c)
  /\ audio_generation'     = audio_generation

DisconnectMapsResetting(c) ==
  /\ active_connections'   = Del(active_connections, c)
  /\ realtime_connections' = Del(realtime_connections, c)
  /\ sessions'             = Del(sessions, c)
  /\ acc_items'            = Del(acc_items, c)
  /\ last_audio_item_ids'  = Del(last_audio_item_ids, c)
  /\ can_accept_audio'     = Put(can_accept_audio, c, FALSE)
  /\ valid_audio_item_ids' = Del(valid_audio_item_ids, c)
  /\ audio_generation'     = Del(audio_generation, c)

DisconnectMaps(c) ==
  /\ active_connections'   = Del(active_connections, c)
  /\ realtime_connections' = Del(realtime_connections, c)
  /\ sessions'             = Del(sessions, c)
  /\ acc_items'            = Del(acc_items, c)
  /\ last_audio_item_ids'  = Del(last_audio_item_ids, c)
  /\ can_accept_audio'     = Del(can_accept_audio, c)
  /\ valid_audio_item_ids' = Del(valid_audio_item_ids, c)
  /\ audio_generation'     = Del(audio_generation, c)

\* realtime_task.cancel(): a task that has not finished is cancelled at the
\* await it is suspended in; a finished task is left as it is.
CancelNothing(pc) == pc
CancelTask(pc) == IF pc \in {"start", "setup", "loop"} THEN "cancelled" ELSE pc

\* In how many of the dictionaries a client id has an entry.
Presence(c) ==
  LET n == Cardinality({i \in 1..8 : c \in DOMAIN maps[i]})
  IN IF n = 8 THEN "all" ELSE IF n = 0 THEN "none" ELSE "some"

\* WebSocketDisconnect raised by receive_json: cancel the realtime task and
\* run manager.disconnect; the coroutine returns.
Disconnect(k) ==
  /\ ep[k].pc = "recv"
  /\ DisconnectMaps(ep[k].cid)
  /\ ep' = [ep EXCEPT ![k].pc = "done"]
  /\ rt' = [rt EXCEPT ![k].pc = CancelTask(@)]
  /\ last' = In(k, "disconnect", 0, NULL, Presence(ep[k].cid), <<>>)
  /\ sent' = <<>>
  /\ up' = <<>>
  /\ Observe(k)

\* handle_realtime_connection: the upstream connection opens and is
\* registered; the task then awaits session.update.
RtConnect(k) ==
  /\ rt[k].pc = "start"
  /\ realtime_connections' = Put(realtime_connections, rt[k].cid, k)
  /\ rt' = [rt EXCEPT ![k].pc = "setup"]
  /\ UNCHANGED <<active_connections, sessions, acc_items, last_audio_item_ids,
                 can_accept_audio, valid_audio_item_ids, audio_generation, ep>>
  /\ last' = In(k, "rt_connect", 0, NULL, NULL, <<>>)
  /\ sent' = <<>>
  /\ up' = <<>>
  /\ Observe(k)

\* client.realtime.connect raises (the upstream handshake fails): nothing
\* in handle_realtime_connection or websocket_endpoint catches it, so the
\* task ends holding the exception and nothing else happens.
RtConnectFail(k) ==
  /\ rt[k].pc = "start"
  /\ rt' = [rt EXCEPT ![k].pc = "crashed"]
  /\ UNCHANGED <<maps, ep>>
  /\ last' = In(k, "rt_connect_failed", 0, NULL, NULL, <<>>)
  /\ sent' = <<>>
  /\ up' = <<>>
  /\ Observe(k)

\* conn.session.update raises: the exception leaves the "async with" block,
\* which closes the connection; its entry stays in realtime_connections.
RtConfigureFail(k) ==
  /\ rt[k].pc = "setup"
  /\ rt' = [rt EXCEPT ![k].pc = "crashed"]
  /\ UNCHANGED <<maps, ep>>
  /\ last' = In(k, "rt_configure_failed", 0, NULL, NULL, <<>>)
  /\ sent' = <<>>
  /\ up' = <<[conn |-> k, op |-> "session.update", arg |-> <<"multiply">>, ok |-> FALSE]>>
  /\ Observe(k)

\* session.update returned: connection_ready goes to the client and the
\* task enters its "async for event in conn" loop.
RtConfigure(k) ==
  /\ rt[k].pc = "setup"
  /\ rt' = [rt EXCEPT ![k].pc = "loop"]
  /\ UNCHANGED <<maps, ep>>
  /\ last' = In(k, "rt_configure", 0, NULL, NULL, <<>>)
  /\ sent' = SendPersonal([type |-> "connection_ready", status |-> "connected"], rt[k].cid)
  /\ up' = <<[conn |-> k, op |-> "session.update", arg |-> <<"multiply">>, ok |-> TRUE]>>
  /\ Observe(k)

\* The upstream stream ends: the loop and the "async with" block exit, which
\* closes the connection; its entry stays in realtime_connections.
RtClose(k) ==
  /\ rt[k].pc = "loop"
  /\ rt' = [rt EXCEPT ![k].pc = "closed"]
  /\ UNCHANGED <<maps, ep>>
  /\ last' = In(k, "rt_close", 0, NULL, NULL, <<>>)
  /\ sent' = <<>>
  /\ up' = <<>>
  /\ Observe(k)


\* ---------------------------------------------------------- Event Router
\* One iteration of "async for event in conn" is one step: the handlers of
\* the audio, transcript, session and response.created events change the
\* dictionaries before their only await (the send to the client).
RouterStep(k) == rt[k].pc = "loop"

\* Lines 164-168: an empty valid set admits the item id it is shown.
AdmitAudioAlways(valid_ids, item_id) == valid_ids \cup {item_id}
AdmitAudioSecond(valid_ids, item_id) ==
  IF Cardinality(valid_ids) <= 1 THEN valid_ids \cup {item_id} ELSE valid_ids
AdmitAudio(valid_ids, item_id) ==
  IF Cardinality(valid_ids) = 0 THEN valid_ids \cup {item_id} ELSE valid_ids

\* response.output_audio.delta
AudioDelta(k, item_id, delta) ==
  LET c == rt[k].cid
      valid_ids == AdmitAudio(Get(valid_audio_item_ids, c, {}), item_id)
  IN
  /\ RouterStep(k)
  /\ valid_audio_item_ids' = Put(valid_audio_item_ids, c, valid_ids)
  /\ last' = In(k, "response.output_audio.delta", 1, item_id, delta, <<>>)
  /\ up' = <<>>
  /\ IF item_id \in valid_ids
       THEN IF c \in DOMAIN last_audio_item_ids
              THEN /\ last_audio_item_ids' = [last_audio_item_ids EXCEPT ![c] = item_id]
                   /\ sent' = SendPersonal([type |-> "audio_delta", item_id |-> item_id,
                                            delta |-> delta], c)
                   /\ UNCHANGED rt
              ELSE \* KeyError at line 172 leaves the loop
                   /\ rt' = [rt EXCEPT ![k].pc = "crashed"]
                   /\ sent' = <<>>
                   /\ UNCHANGED last_audio_item_ids
       ELSE /\ sent' = <<>>
            /\ UNCHANGED <<last_audio_item_ids, rt>>
  /\ UNCHANGED <<active_connections, realtime_connections, sessions, acc_items,
                 can_accept_audio, audio_generation, ep>>
  /\ Observe(k)

\* Lines 190-195: the text stored for an item id after one more delta.
AccumulateReplace(items, item_id, delta) == delta
AccumulatePrepend(items, item_id, delta) ==
  IF item_id \in DOMAIN items THEN delta \o items[item_id] ELSE delta
AccumulateTranscript(items, item_id, delta) ==
  IF item_id \in DOMAIN items THEN items[item_id] \o delta ELSE delta

\* The number of deltas held in one client's accumulator.
RECURSIVE SumLen(_, _)
SumLen(items, ids) ==
  IF ids = {} THEN 0
  ELSE LET i == CHOOSE x \in ids : TRUE IN Len(items[i]) + SumLen(items, ids \ {i})
TotalText(items) == SumLen(items, DOMAIN items)

\* Line 189: the gate of the transcript handler.
TranscriptUngated(c, item_id) == TRUE
TranscriptAdmitted(c, item_id) == item_id \in Get(valid_audio_item_ids, c, {})

\* response.output_audio_transcript.delta
TranscriptDelta(k, item_id, d) ==
  LET c == rt[k].cid
      delta == <<d>>
  IN
  /\ RouterStep(k)
  /\ TotalText(Get(acc_items, c, <<>>)) < MaxText
  /\ last' = In(k, "response.output_audio_transcript.delta", 1, item_id, d, <<>>)
  /\ up' = <<>>
  /\ IF TranscriptAdmitted(c, item_id)
       THEN IF c \in DOMAIN acc_items
              THEN LET text == AccumulateTranscript(acc_items[c], item_id, delta) IN
                   /\ acc_items' = [acc_items EXCEPT ![c] = Put(@, item_id, text)]
                   /\ sent' = SendPersonal([type |-> "transcript_delta", item_id |-> item_id,
                                            text |-> text], c)
                   /\ UNCHANGED rt
              ELSE \* KeyError raised again inside the except clause at line 193
                   /\ rt' = [rt EXCEPT ![k].pc = "crashed"]
                   /\ sent' = <<>>
                   /\ UNCHANGED acc_items
       ELSE /\ sent' = <<>>
            /\ UNCHANGED <<acc_items, rt>>
  /\ UNCHANGED <<active_connections, realtime_connections, sessions, last_audio_item_ids,
                 can_accept_audio, valid_audio_item_ids, audio_generation, ep>>
  /\ Observe(k)

\* response.created
ResponseCreated(k) ==
  LET c == rt[k].cid IN
  /\ RouterStep(k)
  /\ valid_audio_item_ids' = Put(valid_audio_item_ids, c, {})
  /\ last' = In(k, "response.created", 1, NULL, NULL, <<>>)
  /\ sent' = <<>>
  /\ up' = <<>>
  /\ UNCHANGED <<active_connections, realtime_connections, sessions, acc_items,
                 last_audio_item_ids, can_accept_audio, audio_generation, ep, rt>>
  /\ Observe(k)

\* session.created
SessionCreated(k, sid) ==
  LET c == rt[k].cid IN
  /\ RouterStep(k)
  /\ sessions' = Put(sessions, c, sid)
  /\ last' = In(k, "session.created", 1, NULL, sid, <<>>)
  /\ sent' = IF sid # NULL
               THEN SendPersonal([type |-> "session_created", session_id |-> sid], c)
               ELSE <<>>
  /\ up' = <<>>
  /\ UNCHANGED <<active_connections, realtime_connections, acc_items, last_audio_item_ids,
                 can_accept_audio, valid_audio_item_ids, audio_generation, ep, rt>>
  /\ Observe(k)

\* session.updated
SessionUpdated(k, sid) ==
  LET c == rt[k].cid IN
  /\ RouterStep(k)
  /\ sessions' = Put(sessions, c, sid)
  /\ last' = In(k, "session.updated", 1, NULL, sid, <<>>)
  /\ sent' = <<>>
  /\ up' = <<>>
  /\ UNCHANGED <<active_connections, realtime_connections, acc_items, last_audio_item_ids,
                 can_accept_audio, valid_audio_item_ids, audio_generation, ep, rt>>
  /\ Observe(k)


\* ------------------------------------------------ Client Command Dispatcher
\* The "while True" loop of websocket_endpoint.  A command is received at
\* pc = "recv" (phase 1); each later await of its handler is a further
\* phase.  The handler keeps the connection object it read at its start
\* (ep[k].conn).  An upstream call on a connection that is no longer open
\* raises; outside a try block the exception leaves websocket_endpoint,
\* which handles WebSocketDisconnect only (pc = "crashed").
CommandStep(k) == ep[k].pc = "recv"

HasConn(c) == c \in DOMAIN realtime_connections

AfterCall(k, j, pc) ==
  [ep EXCEPT ![k].pc = IF ConnOpen(j) THEN pc ELSE "crashed", ![k].conn = j]

\* Line 481: the gate of audio_chunk.
ChunkAcceptedAlways(c) == HasConn(c)
ChunkAccepted(c) == HasConn(c) /\ Get(can_accept_audio, c, FALSE)

\* audio_chunk
AudioChunk(k, audio) ==
  LET c == ep[k].cid IN
  /\ CommandStep(k)
  /\ last' = In(k, "audio_chunk", 1, NULL, audio, <<>>)
  /\ sent' = <<>>
  /\ IF ChunkAccepted(c)
       THEN /\ up' = <<UpOp(realtime_connections[c], "input_audio_buffer.append", <<audio>>)>>
            /\ ep' = AfterCall(k, realtime_connections[c], "recv")
       ELSE /\ up' = <<>>
            /\ UNCHANGED ep
  /\ UNCHANGED <<maps, rt>>
  /\ Observe(k)

\* Line 491: the generation after one more start_recording.
SameGeneration(g) == g
NextGeneration(g) == g + 1

\* start_recording, lines 488-495: generation, valid ids, response.cancel,
\* then the grace sleep.
StartRecording(k) ==
  LET c == ep[k].cid IN
  /\ CommandStep(k)
  /\ Get(audio_generation, c, 0) < MaxGen
  /\ last' = In(k, "start_recording", 1, NULL, NULL, <<>>)
  /\ sent' = <<>>
  /\ IF HasConn(c)
       THEN /\ audio_generation' = Put(audio_generation, c,
                                            NextGeneration(Get(audio_generation, c, 0)))
            /\ valid_audio_item_ids' = Put(valid_audio_item_ids, c, {})
            /\ up' = <<UpOp(realtime_connections[c], "response.cancel", <<>>)>>
            /\ ep' = AfterCall(k, realtime_connections[c], "sr_sleep")
       ELSE /\ up' = <<>>
            /\ UNCHANGED <<audio_generation, valid_audio_item_ids, ep>>
  /\ UNCHANGED <<active_connections, realtime_connections, sessions, acc_items,
                 last_audio_item_ids, can_accept_audio, rt>>
  /\ Observe(k)

\* Lines 499-502 and 521-524: input_audio_buffer.clear inside try/except;
\* a failure is swallowed.
ClearBuffer(k, op, pc) ==
  /\ last' = In(k, op, 2, NULL, NULL, <<>>)
  /\ sent' = <<>>
  /\ up' = <<UpOp(ep[k].conn, "input_audio_buffer.clear", <<>>)>>
  /\ ep' = [ep EXCEPT ![k].pc = pc]
  /\ UNCHANGED <<maps, rt>>

StartRecordingClear(k) ==
  /\ ep[k].pc = "sr_sleep"
  /\ ClearBuffer(k, "start_recording", "sr_clear")
  /\ Observe(k)

\* Lines 504-507 and 526-529: forget the transcripts and the last item id.
ClearNothing(c) == UNCHANGED <<acc_items, last_audio_item_ids>>
ClearEveryClient(c) ==
  /\ acc_items' = [x \in DOMAIN acc_items |-> [i \in {} |-> <<>>]]
  /\ last_audio_item_ids' = [x \in DOMAIN last_audio_item_ids |-> NULL]
ClearAccumulated(c) ==
  /\ acc_items' = IF c \in DOMAIN acc_items
                    THEN [acc_items EXCEPT ![c] = [i \in {} |-> <<>>]]
                    ELSE acc_items
  /\ last_audio_item_ids' = IF c \in DOMAIN last_audio_item_ids
                              THEN [last_audio_item_ids EXCEPT ![c] = NULL]
                              ELSE last_audio_item_ids

\* Line 509: what start_recording leaves in can_accept_audio.
AcceptAfterStartUnchanged(c) == can_accept_audio
AcceptAfterStart(c) == Put(can_accept_audio, c, TRUE)

\* start_recording, lines 504-510.
StartRecordingFinish(k) ==
  LET c == ep[k].cid IN
  /\ ep[k].pc = "sr_clear"
  /\ ClearAccumulated(c)
  /\ can_accept_audio' = AcceptAfterStart(c)
  /\ last' = In(k, "start_recording", 3, NULL, NULL, <<>>)
  /\ sent' = SendPersonal([type |-> "recording_started"], c)
  /\ up' = <<>>
  /\ ep' = [ep EXCEPT ![k].pc = "recv"]
  /\ UNCHANGED <<active_connections, realtime_connections, sessions,
                 valid_audio_item_ids, audio_generation, rt>>
  /\ Observe(k)

\* Lines 517 and 534: what hard_stop and stop_recording leave in
\* can_accept_audio.
AcceptAfterStopUnchanged(c) == can_accept_audio
AcceptAfterStop(c) == Put(can_accept_audio, c, FALSE)

\* hard_stop, lines 514-519.
HardStop(k) ==
  LET c == ep[k].cid IN
  /\ CommandStep(k)
  /\ last' = In(k, "hard_stop", 1, NULL, NULL, <<>>)
  /\ sent' = <<>>
  /\ IF HasConn(c)
       THEN /\ can_accept_audio' = AcceptAfterStop(c)
            /\ up' = <<UpOp(realtime_connections[c], "response.cancel", <<>>)>>
            /\ ep' = AfterCall(k, realtime_connections[c], "hs_cancel")
       ELSE /\ up' = <<>>
            /\ UNCHANGED <<can_accept_audio, ep>>
  /\ UNCHANGED <<active_connections, realtime_connections, sessions, acc_items,
                 last_audio_item_ids, valid_audio_item_ids, audio_generation, rt>>
  /\ Observe(k)

HardStopClear(k) ==
  /\ ep[k].pc = "hs_cancel"
  /\ ClearBuffer(k, "hard_stop", "hs_clear")
  /\ Observe(k)

\* hard_stop, lines 526-530.
HardStopFinish(k) ==
  LET c == ep[k].cid IN
  /\ ep[k].pc = "hs_clear"
  /\ ClearAccumulated(c)
  /\ last' = In(k, "hard_stop", 3, NULL, NULL, <<>>)
  /\ sent' = SendPersonal([type |-> "hard_stopped"], c)
  /\ up' = <<>>
  /\ ep' = [ep EXCEPT ![k].pc = "recv"]
  /\ UNCHANGED <<active_connections, realtime_connections, sessions, can_accept_audio,
                 valid_audio_item_ids, audio_generation, rt>>
  /\ Observe(k)

\* stop_recording, lines 534-538.
StopRecording(k) ==
  LET c == ep[k].cid IN
  /\ CommandStep(k)
  /\ can_accept_audio' = AcceptAfterStop(c)
  /\ last' = In(k, "stop_recording", 1, NULL, NULL, <<>>)
  /\ sent' = <<>>
  /\ IF HasConn(c)
       THEN /\ up' = <<UpOp(realtime_connections[c], "input_audio_buffer.commit", <<>>)>>
            /\ ep' = AfterCall(k, realtime_connections[c], "st_commit")
       ELSE /\ up' = <<>>
            /\ UNCHANGED ep
  /\ UNCHANGED <<active_connections, realtime_connections, sessions, acc_items,
                 last_audio_item_ids, valid_audio_item_ids, audio_generation, rt>>
  /\ Observe(k)

\* stop_recording, lines 539-544.
StopRecordingCreate(k) ==
  /\ ep[k].pc = "st_commit"
  /\ last' = In(k, "stop_recording", 2, NULL, NULL, <<>>)
  /\ sent' = <<>>
  /\ up' = <<UpOp(ep[k].conn, "response.create", <<"SYSTEM_PROMPT">>)>>
  /\ ep' = AfterCall(k, ep[k].conn, "st_create")
  /\ UNCHANGED <<maps, rt>>
  /\ Observe(k)

\* stop_recording, line 545.
StopRecordingFinish(k) ==
  /\ ep[k].pc = "st_create"
  /\ last' = In(k, "stop_recording", 3, NULL, NULL, <<>>)
  /\ sent' = SendPersonal([type |-> "recording_stopped"], ep[k].cid)
  /\ up' = <<>>
  /\ ep' = [ep EXCEPT ![k].pc = "recv"]
  /\ UNCHANGED <<maps, rt>>
  /\ Observe(k)

\* ----------------------------------------------------------- tool calls
\* Python values met while a multiply call is executed.  A float is kept as
\* sign and magnitude (so that -2.0 * 0.0 is -0.0); the magnitudes are whole
\* numbers below 10^16, which float holds exactly and str() prints without
\* an exponent.  An argument value is an int, a str (a sequence of
\* characters), None, or missing from the dict.
Float(neg, mag) == [neg |-> neg, mag |-> mag]
PyInt(n)     == [t |-> "int", n |-> n, s |-> <<>>]
PyStr(s)     == [t |-> "str", n |-> 0, s |-> s]
PyNone       == [t |-> "none", n |-> 0, s |-> <<>>]
PyMissing    == [t |-> "missing", n |-> 0, s |-> <<>>]

Raise(exc)   == [ok |-> FALSE, exc |-> exc, val |-> Float(FALSE, 0)]
Return(val)  == [ok |-> TRUE, exc |-> NULL, val |-> val]

DigitChars == <<"0", "1", "2", "3", "4", "5", "6", "7", "8", "9">>
IsDigit(ch) == \E d \in 1..10 : DigitChars[d] = ch
DigitOf(ch) == (CHOOSE d \in 1..10 : DigitChars[d] = ch) - 1

RECURSIVE ParseNat(_, _)
ParseNat(chars, acc) ==
  IF chars = <<>> THEN acc ELSE ParseNat(Tail(chars), 10 * acc + DigitOf(Head(chars)))

RECURSIVE NatDigits(_)
NatDigits(n) ==
  IF n < 10 THEN <<DigitChars[n + 1]>>
  ELSE NatDigits(n \div 10) \o <<DigitChars[(n % 10) + 1]>>

\* float(x) for the values above: an int converts, a str converts when it is
\* an optional sign followed by digits, None is a TypeError.
PyFloat(x) ==
  IF x.t = "int" THEN Return(Float(x.n < 0, IF x.n < 0 THEN -x.n ELSE x.n))
  ELSE IF x.t = "none" THEN Raise("TypeError")
  ELSE LET signed == x.s # <<>> /\ Head(x.s) \in {"-", "+"}
           digits == IF signed THEN Tail(x.s) ELSE x.s
       IN IF digits # <<>> /\ \A n \in 1..Len(digits) : IsDigit(digits[n])
            THEN Return(Float(signed /\ Head(x.s) = "-", ParseNat(digits, 0)))
            ELSE Raise("ValueError")

\* str(f) of a float holding a whole number.
StrFloat(f) == (IF f.neg THEN <<"-">> ELSE <<>>) \o NatDigits(f.mag) \o <<".", "0">>

\* multiply.py, execute_multiply: result = a * b.
ExecuteAdd(a, b) == [result |-> Float(a.neg /\ b.neg, a.mag + b.mag)]
ExecuteMultiply(a, b) == [result |-> Float(a.neg # b.neg, a.mag * b.mag)]

\* The arguments of a call as the event carries them: a JSON text (enc =
\* "str", well formed or not), a structured value (enc = "obj"), or nothing
\* (enc = "missing").  val is what the text denotes: a dict (with a and b)
\* or a list.
Args(enc, wf, kind, a, b) == [enc |-> enc, wf |-> wf, kind |-> kind, a |-> a, b |-> b]
EmptyDict == [kind |-> "dict", a |-> PyMissing, b |-> PyMissing]

\* json.loads when the arguments are a str; "{}" when the event has none.
ParseArguments(args) ==
  IF args.enc = "missing" THEN [ok |-> TRUE, exc |-> NULL, val |-> EmptyDict]
  ELSE IF args.enc = "str" /\ ~args.wf
    THEN [ok |-> FALSE, exc |-> "JSONDecodeError", val |-> EmptyDict]
  ELSE [ok |-> TRUE, exc |-> NULL, val |-> [kind |-> args.kind, a |-> args.a, b |-> args.b]]

\* arguments.get(key, 0)
GetOrZero(x) == IF x.t = "missing" THEN PyInt(0) ELSE x

\* The body of the three try blocks (lines 270-275, 330-337, 377-384): the
\* output string of the call, or the exception raised.
RunMultiply(args) ==
  LET parsed == ParseArguments(args) IN
  IF ~parsed.ok THEN [ok |-> FALSE, exc |-> parsed.exc, out |-> <<>>]
  ELSE IF parsed.val.kind # "dict" THEN [ok |-> FALSE, exc |-> "AttributeError", out |-> <<>>]
  ELSE LET a == PyFloat(GetOrZero(parsed.val.a))
           b == PyFloat(GetOrZero(parsed.val.b))
       IN IF ~a.ok THEN [ok |-> FALSE, exc |-> a.exc, out |-> <<>>]
          ELSE IF ~b.ok THEN [ok |-> FALSE, exc |-> b.exc, out |-> <<>>]
          ELSE [ok |-> TRUE, exc |-> NULL, out |-> StrFloat(ExecuteMultiply(a.val, b.val).result)]

\* f"Error: {str(e)}"
ErrorText(exc) == <<"Error: ", exc>>

\* A tool call as an event carries it.  form is the shape of a content part
\* ("typed": part.type is function_call and the fields are on the part;
\* "nested": they are under part["function_call"]; "plain": no function
\* call).  fn is the "function" entry of a requires_action tool call: a
\* dict holding name and arguments, absent (name and arguments on the tool
\* call itself), or null.
ToolCall(id, name, form, fn, args) ==
  [id |-> id, name |-> name, form |-> form, fn |-> fn, args |-> args]

ToolOutput(call_id, output) == [tool_call_id |-> call_id, output |-> output]

SubmitToolOutputs(k, outputs) ==
  [conn |-> k, op |-> "submit_tool_outputs", arg |-> <<>>, ok |-> TRUE, outputs |-> outputs]
CreateOutputItem(k, call_id, output) ==
  [conn |-> k, op |-> "conversation.item.create", arg |-> <<"function_call_output">>,
   ok |-> TRUE, call_id |-> call_id, output |-> output]
CreateResponse(k, instructions) ==
  [conn |-> k, op |-> "response.create", arg |-> <<instructions>>, ok |-> TRUE]

\* Line 462: every event no branch has consumed goes to the client whole.
PassThrough(k, type, form, calls) ==
  SendPersonal([type |-> "realtime_event",
                event |-> [type |-> type, form |-> form, calls |-> calls]], rt[k].cid)

IsMultiplyCall(call) == call.name = "multiply" /\ call.id # NULL

\* response.content_part.added, lines 220-293.  The handler ends in
\* "continue" whatever it found.
ContentPartOutputs(k, call) ==
  IF call.form \in {"typed", "nested"} /\ IsMultiplyCall(call) /\ RunMultiply(call.args).ok
    THEN <<SubmitToolOutputs(k, <<ToolOutput(call.id, RunMultiply(call.args).out)>>)>>
    ELSE <<>>

ContentPartAdded(k, call) ==
  /\ RouterStep(k)
  /\ last' = In(k, "response.content_part.added", 1, NULL, NULL, <<call>>)
  /\ sent' = <<>>
  /\ up' = ContentPartOutputs(k, call)
  /\ UNCHANGED <<maps, ep, rt>>
  /\ Observe(k)

\* response.requires_action, lines 300-363.  ra is where the event keeps its
\* tool calls: under required_action.submit_tool_outputs ("dict"), at the
\* top level with no required_action ("absent"), or at the top level with
\* required_action present and null ("null").  Lines 305-323 run outside any
\* try block: required_action.get on None, or tool_call.get("function",
\* {}).get on None, raises AttributeError out of the loop.
RECURSIVE RequiresActionOutputs(_)
RequiresActionOutputs(calls) ==
  IF calls = <<>> THEN <<>>
  ELSE LET call == Head(calls)
           run == RunMultiply(call.args)
       IN (IF IsMultiplyCall(call)
             THEN <<ToolOutput(call.id, IF run.ok THEN run.out ELSE ErrorText(run.exc))>>
             ELSE <<>>)
          \o RequiresActionOutputs(Tail(calls))

RequiresActionRaises(ra, calls) ==
  \/ ra = "null"
  \/ \E n \in 1..Len(calls) : calls[n].fn = "null"

RequiresAction(k, ra, calls) ==
  LET outputs == RequiresActionOutputs(calls) IN
  /\ RouterStep(k)
  /\ last' = In(k, "response.requires_action", 1, NULL, ra, calls)
  /\ IF RequiresActionRaises(ra, calls)
       THEN /\ rt' = [rt EXCEPT ![k].pc = "crashed"]
            /\ up' = <<>>
            /\ sent' = <<>>
       ELSE /\ UNCHANGED rt
            /\ up' = IF outputs # <<>> THEN <<SubmitToolOutputs(k, outputs)>> ELSE <<>>
            /\ sent' = IF outputs # <<>> THEN <<>>
                       ELSE PassThrough(k, "response.requires_action", ra, calls)
  /\ UNCHANGED <<maps, ep>>
  /\ Observe(k)

\* response.function_call_arguments.done, lines 366-451.
ArgumentsDoneCalls(k, call) ==
  LET run == RunMultiply(call.args) IN
  IF ~IsMultiplyCall(call) THEN <<>>
  ELSE IF run.ok
    THEN <<CreateOutputItem(k, call.id, run.out), CreateResponse(k, "SYSTEM_PROMPT")>>
    ELSE <<CreateOutputItem(k, call.id, ErrorText(run.exc)),
           CreateResponse(k, "Inform the user that there was an error with the calculation.")>>

FunctionCallArgumentsDone(k, call) ==
  /\ RouterStep(k)
  /\ last' = In(k, "response.function_call_arguments.done", 1, NULL, NULL, <<call>>)
  /\ up' = ArgumentsDoneCalls(k, call)
  /\ sent' = IF IsMultiplyCall(call) THEN <<>>
             ELSE PassThrough(k, "response.function_call_arguments.done", NULL, <<call>>)
  /\ UNCHANGED <<maps, ep, rt>>
  /\ Observe(k)

\* Any other event type, lines 453-462.
OtherEvent(k, type) ==
  /\ RouterStep(k)
  /\ last' = In(k, type, 1, NULL, NULL, <<>>)
  /\ up' = <<>>
  /\ sent' = PassThrough(k, type, NULL, <<>>)
  /\ UNCHANGED <<maps, ep, rt>>
  /\ Observe(k)

\* The events the model feeds to the three handlers.
ArgsB        == Args("str", TRUE, "dict", PyInt(3), PyInt(4))
ArgsD        == Args("obj", TRUE, "dict", PyStr(<<"2">>), PyInt(5))
ArgsWide     == Args("str", TRUE, "dict", PyStr(<<"1", "2">>), PyInt(10))
ArgsNegZero  == Args("obj", TRUE, "dict", PyStr(<<"-", "2">>), PyInt(0))
ArgsBadJson  == Args("str", FALSE, "dict", PyMissing, PyMissing)
ArgsNotNum   == Args("obj", TRUE, "dict", PyStr(<<"x">>), PyInt(4))
ArgsNull     == Args("str", TRUE, "dict", PyInt(3), PyNone)
ArgsList     == Args("str", TRUE, "list", PyMissing, PyMissing)
ArgsMissingB == Args("str", TRUE, "dict", PyInt(3), PyMissing)
ArgsNone     == Args("missing", TRUE, "dict", PyMissing, PyMissing)

GoodArgs == {ArgsB, ArgsD, ArgsWide, ArgsNegZero}
BadArgs  == {ArgsBadJson, ArgsNotNum, ArgsNull, ArgsList}
AllArgs  == GoodArgs \cup BadArgs \cup {ArgsMissingB, ArgsNone}

CallIds   == {"call1", NULL}
ToolNames == {"multiply", "divide"}

PartCalls == {ToolCall(id, name, form, "absent", args) :
                id \in CallIds, name \in ToolNames, form \in {"typed", "nested", "plain"},
                args \in AllArgs}
DoneCalls == {ToolCall(id, name, "typed", "absent", args) :
                id \in CallIds, name \in ToolNames, args \in AllArgs}
ActionCalls == {ToolCall(id, name, "typed", fn, args) :
                  id \in CallIds, name \in ToolNames, fn \in {"dict", "absent", "null"},
                  args \in {ArgsB, ArgsBadJson, ArgsMissingB}}
ActionLists ==
  {<<>>} \cup {<<c>> : c \in ActionCalls}
  \cup {<<ToolCall("call1", "multiply", "typed", "dict", a1),
          ToolCall("call2", n2, "typed", "dict", a2)>> :
          a1 \in {ArgsB, ArgsBadJson}, a2 \in {ArgsD, ArgsNotNum}, n2 \in ToolNames}
OtherTypes == {"response.done", "response.function_call_arguments.delta"}

\* ------------------------------------------------------- specifications
NoTask == [pc |-> "none", cid |-> NULL, conn |-> 0]

InitProgram ==
  /\ active_connections = EmptyMap
  /\ realtime_connections = EmptyMap
  /\ sessions = EmptyMap
  /\ acc_items = EmptyMap
  /\ last_audio_item_ids = EmptyMap
  /\ can_accept_audio = EmptyMap
  /\ valid_audio_item_ids = EmptyMap
  /\ audio_generation = EmptyMap
  /\ ep = [k \in Conns |-> NoTask]
  /\ rt = [k \in Conns |-> [pc |-> "none", cid |-> NULL]]
  /\ last = In(0, "init", 0, NULL, NULL, <<>>)
  /\ sent = <<>>
  /\ up = <<>>
  /\ firstAfterReset = [c \in Clients |-> NULL]
  /\ watch = "i1"  \* item ids are interchangeable: following one of them covers each
  /\ prevFwd = [c \in Clients |-> <<>>]
  /\ genChanged = [c \in Clients |-> FALSE]
  /\ accCleared = [c \in Clients |-> FALSE]
  /\ shake = [c \in Clients |-> "none"]
  /\ window = [c \in Clients |-> FALSE]
  /\ stale = [c \in Clients |-> "no"]
  /\ hist = <<>>
  /\ uplog = <<>>
  /\ clog = <<>>

Init == InitProgram /\ traceOn = "no"

\* The specifications below run one connection of one client and differ in
\* the handlers they include.  The split follows the variables the handlers
\* touch: audio_chunk and stop_recording read and write can_accept_audio and
\* the upstream buffer only, the session events write sessions only, and
\* the tool-call events write no dictionary at all.
Lifecycle(k) ==
  \/ Connect(k, "c1")
  \/ Disconnect(k)
  \/ RtConnect(k)
  \/ RtConfigure(k)
  \/ RtClose(k)

\* Trust window and dispatcher: the audio events gated by
\* valid_audio_item_ids, the resets, and the four commands.
Next ==
  \E k \in {1} :
    \/ Lifecycle(k)
    \/ \E i \in Items : AudioDelta(k, i, "p")
    \/ ResponseCreated(k)
    \/ \E a \in Chunks : AudioChunk(k, a)
    \/ StartRecording(k)
    \/ StartRecordingClear(k)
    \/ StartRecordingFinish(k)
    \/ HardStop(k)
    \/ HardStopClear(k)
    \/ HardStopFinish(k)
    \/ StopRecording(k)
    \/ StopRecordingCreate(k)
    \/ StopRecordingFinish(k)

Spec == Init /\ [][Next]_vars

\* Transcripts: the transcript events with everything that admits an item
\* id or clears the accumulator.
NextTranscript ==
  \E k \in {1} :
    \/ Lifecycle(k)
    \/ \E i \in Items : AudioDelta(k, i, "p")
    \/ \E i \in Items, d \in Deltas : TranscriptDelta(k, i, d)
    \/ ResponseCreated(k)
    \/ StartRecording(k)
    \/ StartRecordingClear(k)
    \/ StartRecordingFinish(k)
    \/ HardStop(k)
    \/ HardStopClear(k)
    \/ HardStopFinish(k)

SpecTranscript == Init /\ [][NextTranscript]_vars


\* Scenarios: the same handlers as Spec with the scenario observer in use.
InitScenario == InitProgram /\ traceOn = "off"

SpecScenario == InitScenario /\ [][Next]_vars

\* Tool calls: the three tool-call event shapes, the pass-through of other
\* events and the session events.
NextTools ==
  \E k \in {1} :
    \/ Lifecycle(k)
    \/ \E sid \in SessionIds : SessionCreated(k, sid)
    \/ \E sid \in SessionIds : SessionUpdated(k, sid)
    \/ \E call \in PartCalls : ContentPartAdded(k, call)
    \/ \E ra \in {"dict", "absent", "null"}, calls \in ActionLists : RequiresAction(k, ra, calls)
    \/ \E call \in DoneCalls : FunctionCallArgumentsDone(k, call)
    \/ \E type \in OtherTypes : OtherEvent(k, type)

SpecTools == Init /\ [][NextTools]_vars

\* Connections: two websockets, which may use the same client id or
\* different ones, with the upstream handshake allowed to fail, events that
\* write a dictionary entry of their client id, and stop_recording.  A
\* session.update that failed leaves a closed connection registered, as a
\* closed upstream stream does.
ClientsOf(k) == IF k = 1 THEN {"c1"} ELSE Clients

NextLifecycle ==
  \E k \in Conns :
    \/ \E c \in ClientsOf(k) : Connect(k, c)
    \/ Disconnect(k)
    \/ RtConnect(k)
    \/ RtConnectFail(k)
    \/ RtConfigure(k)
    \/ RtConfigureFail(k)
    \/ AudioDelta(k, "i1", "p")
    \/ SessionCreated(k, "s1")
    \/ StopRecording(k)
    \/ StopRecordingCreate(k)
    \/ StopRecordingFinish(k)

SpecLifecycle == Init /\ [][NextLifecycle]_vars

\* Two clients: client c1 on connection 1 with the four commands, an audio
\* stream and the session and response.created events, beside client c2 on
\* connection 2,
\* which connects, starts a recording, receives audio and disconnects.
NextFrame ==
  \/ Lifecycle(1)
  \/ AudioDelta(1, "i1", "p")
  \/ ResponseCreated(1)
  \/ StartRecording(1)
  \/ StartRecordingClear(1)
  \/ StartRecordingFinish(1)
  \/ HardStop(1)
  \/ HardStopClear(1)
  \/ HardStopFinish(1)
  \/ StopRecording(1)
  \/ StopRecordingCreate(1)
  \/ StopRecordingFinish(1)
  \/ AudioChunk(1, "x")
  \/ SessionCreated(1, "s1")
  \/ Connect(2, "c2")
  \/ Disconnect(2)
  \/ RtConnect(2)
  \/ RtConfigure(2)
  \/ AudioDelta(2, "i1", "p")
  \/ StartRecording(2)
  \/ StartRecordingClear(2)
  \/ StartRecordingFinish(2)

SpecFrame == Init /\ [][NextFrame]_vars

\* ------------------------------------------------------------ properties
Client1 == "c1"

\* The upstream operations of a log, without the session configuration.
RECURSIVE Calls(_)
Calls(log) ==
  IF log = <<>> THEN <<>>
  ELSE IF Head(log).op = "session.update" THEN Calls(Tail(log))
  ELSE <<[op |-> Head(log).op, arg |-> Head(log).arg, ok |-> Head(log).ok]>> \o Calls(Tail(log))

\* The audio_delta messages of a client log.
RECURSIVE AudioSent(_)
AudioSent(log) ==
  IF log = <<>> THEN <<>>
  ELSE IF Head(log).msg.type = "audio_delta"
         THEN <<Head(log).msg.item_id>> \o AudioSent(Tail(log))
         ELSE AudioSent(Tail(log))

\* C1 (Scenario C): upstream audio-delta for i1, then start_recording, then
\* another audio-delta for i1, on an established upstream connection: the
\* first delta is forwarded and the second is dropped, so exactly one
\* audio_delta reaches the client.
ScenarioC ==
  /\ Len(hist) = Len(ScriptC)
  /\ \A n \in 1..Len(hist) : hist[n].op = ScriptC[n]
  /\ hist[1].item = "i1"
  /\ hist[2].open
  /\ hist[3].item = "i1"

C1_SecondDeltaDropped == ScenarioC => AudioSent(clog) = <<"i1">>

\* C2: the first audio-delta handled after a reset (connect,
\* response.created, start_recording) is forwarded to the client, and a
\* later audio-delta whose item id is not the first one seen since the
\* most recent reset is not forwarded.
C2_Step ==
  LET L == last'
      c == rt[L.k].cid
  IN L.op = "response.output_audio.delta" =>
       /\ firstAfterReset[c] = NULL =>
            sent' = <<[ws |-> L.k, msg |-> [type |-> "audio_delta", item_id |-> L.item,
                                           delta |-> L.data]]>>
       /\ (firstAfterReset[c] # NULL /\ L.item # firstAfterReset[c]) => sent' = <<>>

C2_TrustWindow == [][C2_Step]_vars

C2_Witness ==
  /\ last.op = "response.output_audio.delta"
  /\ sent = <<>>
  /\ firstAfterReset[Client1] \notin {NULL, last.item}
  /\ Get(audio_generation, Client1, 0) >= 1

\* C3 as stated: every transcript text forwarded for an item id is the text
\* forwarded before for it followed by the new delta, or starts again from
\* the delta alone after the generation counter has changed.
C3_StepOriginal ==
  LET L == last'
      c == rt[L.k].cid
      text == sent'[1].msg.text
  IN (FwdTranscript(sent') /\ L.item = watch) =>
       \/ text = prevFwd[c] \o <<L.data>>
       \/ text = <<L.data>> /\ genChanged[c]

C3_RestartOnlyOnGeneration == [][C3_StepOriginal]_vars

\* C3 amended: every transcript text forwarded for an item id is the text
\* forwarded before for it followed by the new delta, or starts again from
\* the delta alone after a start_recording or hard_stop command has cleared
\* the accumulator since that forward.
C3_Step ==
  LET L == last'
      c == rt[L.k].cid
      text == sent'[1].msg.text
  IN (FwdTranscript(sent') /\ L.item = watch) =>
       \/ text = prevFwd[c] \o <<L.data>>
       \/ text = <<L.data>> /\ accCleared[c]

C3_RestartOnlyOnClear == [][C3_Step]_vars

C3_Witness ==
  /\ FwdTranscript(sent)
  /\ last.item = watch
  /\ Len(sent[1].msg.text) = 2
  /\ Get(audio_generation, Client1, 0) >= 1

\* C4: a transcript delta is forwarded, as transcript_delta with the
\* cumulative text, exactly when its item id is in the client's
\* valid_audio_item_ids as the event is handled; otherwise nothing is sent
\* and acc_items is unchanged.
C4_Step ==
  LET L == last'
      c == rt[L.k].cid
      before == Get(Get(acc_items, c, <<>>), L.item, <<>>)
  IN L.op = "response.output_audio_transcript.delta" =>
       IF L.item \in Get(valid_audio_item_ids, c, {})
         THEN /\ sent' = <<[ws |-> L.k, msg |-> [type |-> "transcript_delta",
                                                item_id |-> L.item,
                                                text |-> before \o <<L.data>>]]>>
              /\ acc_items'[c][L.item] = before \o <<L.data>>
         ELSE /\ sent' = <<>>
              /\ acc_items' = acc_items

C4_TranscriptGate == [][C4_Step]_vars

C4_Witness ==
  /\ last.op = "response.output_audio_transcript.delta"
  /\ sent = <<>>
  /\ valid_audio_item_ids[Client1] # {}
  /\ DOMAIN acc_items[Client1] # {}

\* C5: can_accept_audio of a client is true only after a start_recording
\* has sent response.cancel, attempted input_audio_buffer.clear and
\* finished, with no stop_recording or hard_stop received since; it is
\* false right after connect and after every step of a stop_recording or
\* hard_stop.
C5_AcceptanceWindow ==
  \A c \in DOMAIN can_accept_audio :
    /\ can_accept_audio[c] => (window[c] /\ shake[c] = "cleared")
    /\ (last.op \in {"connect", "stop_recording", "hard_stop"} /\ ep[last.k].cid = c)
         => ~can_accept_audio[c]

C5_Witness ==
  /\ Client1 \in DOMAIN can_accept_audio
  /\ can_accept_audio[Client1]
  /\ audio_generation[Client1] = 2
  /\ last.op = "start_recording"

\* C6: an audio_chunk is appended upstream only if can_accept_audio is true
\* for the client when the chunk is handled; a chunk handled while it is
\* false causes no upstream operation, no message, no error and no change
\* of any dictionary.
C6_Step ==
  LET L == last'
      c == ep[L.k].cid
      accepting == Get(can_accept_audio, c, FALSE)
  IN L.op = "audio_chunk" =>
       /\ up' # <<>> => accepting
       /\ (accepting /\ HasConn(c)) =>
            up' = <<UpOp(realtime_connections[c], "input_audio_buffer.append", <<L.data>>)>>
       /\ ~accepting => /\ up' = <<>>
                        /\ sent' = <<>>
                        /\ maps' = maps
                        /\ ep' = ep
                        /\ rt' = rt

C6_ChunkGate == [][C6_Step]_vars

C6_Witness ==
  /\ last.op = "audio_chunk"
  /\ up = <<>>
  /\ HasConn(Client1)
  /\ ConnOpen(realtime_connections[Client1])
  /\ ep[1].pc = "recv"
  /\ Get(audio_generation, Client1, 0) >= 1

\* C7 (Scenario A) as stated: after start_recording, two audio_chunk
\* messages and stop_recording, the upstream connection has received
\* response.cancel, input_audio_buffer.clear, the two chunks in order,
\* commit and one response.create.
ScenarioA ==
  /\ Len(hist) = Len(ScriptA)
  /\ \A n \in 1..Len(hist) : hist[n].op = ScriptA[n]
  /\ ep[1].pc = "recv"

ScenarioACalls ==
  <<[op |-> "response.cancel", arg |-> <<>>, ok |-> TRUE],
    [op |-> "input_audio_buffer.clear", arg |-> <<>>, ok |-> TRUE],
    [op |-> "input_audio_buffer.append", arg |-> <<hist[2].data>>, ok |-> TRUE],
    [op |-> "input_audio_buffer.append", arg |-> <<hist[3].data>>, ok |-> TRUE],
    [op |-> "input_audio_buffer.commit", arg |-> <<>>, ok |-> TRUE],
    [op |-> "response.create", arg |-> <<"SYSTEM_PROMPT">>, ok |-> TRUE]>>

ToolEventTypes == {"response.content_part.added", "response.requires_action",
                   "response.function_call_arguments.done"}
InformInstruction == "Inform the user that there was an error with the calculation."

\* C8 (Scenario B generalised): a function_call_arguments.done event naming
\* multiply, with a call id and arguments (JSON text or structured) that
\* give a and b as numbers or numeric strings, makes the server create
\* exactly one function_call_output item for that call id, holding the
\* product written as a float ("12.0" for 3 and 4), and then exactly one
\* response.create.
C8_Expected(args) ==
  CASE args = ArgsB -> <<"1", "2", ".", "0">>
    [] args = ArgsD -> <<"1", "0", ".", "0">>
    [] args = ArgsWide -> <<"1", "2", "0", ".", "0">>
    [] args = ArgsNegZero -> <<"-", "0", ".", "0">>

C8_ProductReturned ==
  (/\ last.op = "response.function_call_arguments.done"
   /\ last.calls[1].name = "multiply"
   /\ last.calls[1].id # NULL
   /\ last.calls[1].args \in GoodArgs)
  => /\ up = <<[conn |-> last.k, op |-> "conversation.item.create",
                arg |-> <<"function_call_output">>, ok |-> TRUE,
                call_id |-> last.calls[1].id, output |-> C8_Expected(last.calls[1].args)],
               [conn |-> last.k, op |-> "response.create", arg |-> <<"SYSTEM_PROMPT">>,
                ok |-> TRUE]>>
     /\ sent = <<>>

C8_Witness ==
  /\ last.op = "response.function_call_arguments.done"
  /\ last.calls[1].args = ArgsD
  /\ Len(up) = 2
  /\ up[1].output = <<"1", "0", ".", "0">>
  /\ up[2].op = "response.create"

\* C9: an exception raised while a tool call is extracted or executed, in
\* any of the three event shapes, is caught while that event is handled:
\* after a tool-call event the router is still consuming events.
C9_LoopSurvivesToolCalls ==
  last.op \in ToolEventTypes => rt[last.k].pc = "loop"

\* C10: in each of the three event shapes, a multiply call with a call id
\* whose execution fails gets an error string as the tool output for that
\* call id, followed by a response.create that tells the assistant to
\* inform the user of the error.
C10_ErrorOutputFor(u, id) ==
  \/ /\ u.op = "conversation.item.create"
     /\ u.call_id = id
     /\ Head(u.output) = "Error: "
  \/ /\ u.op = "submit_tool_outputs"
     /\ \E m \in 1..Len(u.outputs) :
          /\ u.outputs[m].tool_call_id = id
          /\ Head(u.outputs[m].output) = "Error: "

C10_FailedCall ==
  /\ last.op \in ToolEventTypes
  /\ Len(last.calls) = 1
  /\ IsMultiplyCall(last.calls[1])
  /\ ~RunMultiply(last.calls[1].args).ok
  /\ last.op = "response.content_part.added" => last.calls[1].form # "plain"
  /\ last.op = "response.requires_action" => ~RequiresActionRaises(last.data, last.calls)

C10_ErrorReported ==
  C10_FailedCall =>
    \E n \in 1..(Len(up) - 1) :
      /\ C10_ErrorOutputFor(up[n], last.calls[1].id)
      /\ up[n + 1].op = "response.create"
      /\ up[n + 1].arg = <<InformInstruction>>

\* A tool-call event with one call whose fields the handler can read.
OneCallExtracted ==
  /\ last.op \in ToolEventTypes
  /\ Len(last.calls) = 1
  /\ last.op = "response.content_part.added" => last.calls[1].form # "plain"
  /\ last.op = "response.requires_action" => ~RequiresActionRaises(last.data, last.calls)

\* C11: a tool-call event, of any of the three shapes, whose tool name is
\* not multiply or whose call id is missing goes to the client exactly once
\* as a realtime_event message carrying the event as it came.
C11_UnmatchedForwarded ==
  (OneCallExtracted /\ ~IsMultiplyCall(last.calls[1]))
  => sent = <<[ws |-> active_connections[rt[last.k].cid],
               msg |-> [type |-> "realtime_event",
                        event |-> [type |-> last.op, form |-> last.data,
                                   calls |-> last.calls]]]>>

\* C12: a tool call naming a tool that is not registered (divide) is
\* answered upstream with an error tool output for its call id.
C12_UnknownToolReported ==
  (/\ OneCallExtracted
   /\ last.calls[1].name = "divide"
   /\ last.calls[1].id # NULL)
  => \E n \in 1..Len(up) : C10_ErrorOutputFor(up[n], last.calls[1].id)

\* C13: a multiply call whose arguments leave out a or b gets no product as
\* its tool output: the output submitted for its call id is an error.
MissingParameter(args) ==
  /\ ParseArguments(args).ok
  /\ ParseArguments(args).val.kind = "dict"
  /\ \/ ParseArguments(args).val.a.t = "missing"
     \/ ParseArguments(args).val.b.t = "missing"

C13_OutputsFor(id) ==
  {up[n].output : n \in {m \in 1..Len(up) :
                           up[m].op = "conversation.item.create" /\ up[m].call_id = id}}
  \cup UNION {{up[n].outputs[m].output :
                 m \in {j \in 1..Len(up[n].outputs) : up[n].outputs[j].tool_call_id = id}} :
              n \in {m \in 1..Len(up) : up[m].op = "submit_tool_outputs"}}

C13_MissingParameterRejected ==
  (/\ OneCallExtracted
   /\ IsMultiplyCall(last.calls[1])
   /\ MissingParameter(last.calls[1].args))
  => /\ C13_OutputsFor(last.calls[1].id) # {}
     /\ \A out \in C13_OutputsFor(last.calls[1].id) : Head(out) = "Error: "

\* C14: when opening or configuring the upstream connection of a client
\* fails, the client is told so and every dictionary entry of its client id
\* is removed, as by disconnect.
C14_HandshakeFailureSurfaced ==
  last.op \in {"rt_connect_failed", "rt_configure_failed"}
  => /\ \E n \in 1..Len(sent) : sent[n].ws = last.k
     /\ Presence(rt[last.k].cid) = "none"

\* Every websocket_endpoint run for client id c has ended by running
\* disconnect.
Ended(c) ==
  /\ \E k \in Conns : ep[k].cid = c
  /\ \A k \in Conns : ep[k].cid = c => ep[k].pc = "done"

ConnectOf(L, c) == L.op = "connect" /\ ep'[L.k].cid = c

\* C15: after the disconnect of a client id no dictionary holds an entry
\* for it, whatever connects, commands, upstream events and disconnects
\* came before, and none appears until that client id connects again.
C15_Step ==
  \A c \in Clients :
    /\ (last'.op = "disconnect" /\ ep[last'.k].cid = c) => Presence(c)' = "none"
    /\ (Ended(c) /\ Presence(c) = "none") => (Presence(c)' = "none" \/ ConnectOf(last', c))

C15_NoResidue == [][C15_Step]_vars

C15_Witness ==
  /\ last.op = "disconnect"
  /\ last.data = "all"
  /\ ep[last.k].cid = "c1"
  /\ Presence("c1") = "none"
  /\ Presence("c2") = "all"

\* C16: disconnect raises nothing whichever dictionaries hold the client
\* id, changes nothing when none holds it, and leaves the dictionaries as a
\* second disconnect of the same client id would leave them.
C16_Step ==
  LET c == ep[last'.k].cid IN
  last'.op = "disconnect" =>
    /\ ep'[last'.k].pc = "done"
    /\ Presence(c) = "none" => maps' = maps
    /\ \A i \in 1..8 : maps'[i] = Del(maps'[i], c)
    /\ \A i \in 1..8 : \A x \in DOMAIN maps[i] \ {c} :
         x \in DOMAIN maps'[i] /\ maps'[i][x] = maps[i][x]

C16_DisconnectIdempotent == [][C16_Step]_vars

C16_Witness ==
  /\ last.op = "disconnect"
  /\ last.data = "none"
  /\ ep[1].pc = "done"
  /\ ep[2].pc = "done"
  /\ Presence("c1") = "none"

\* C17: once every connection of a client id has disconnected, which
\* cancels its realtime task, no message goes to a websocket of that client
\* id, the cancelled task handles no event, and no dictionary entry of that
\* client id is written, until the client id connects again.  A send to a
\* client id that has no websocket registered sends nothing.
RouterEvents == {"response.output_audio.delta", "response.output_audio_transcript.delta",
                 "response.created", "session.created", "session.updated"}

C17_Step ==
  /\ \A c \in Clients :
       (Ended(c) /\ ~ConnectOf(last', c)) =>
         /\ \A n \in 1..Len(sent') : ep[sent'[n].ws].cid # c
         /\ last'.op \in RouterEvents => rt[last'.k].cid # c
         /\ \A i \in 1..8 : /\ (c \in DOMAIN maps'[i]) = (c \in DOMAIN maps[i])
                            /\ c \in DOMAIN maps[i] => maps'[i][c] = maps[i][c]
  /\ (last'.op \in RouterEvents /\ rt[last'.k].cid \notin DOMAIN active_connections)
       => sent' = <<>>

C17_NoLateDelivery == [][C17_Step]_vars

C17_Witness ==
  /\ Ended("c1")
  /\ \E k \in Conns : ep[k].cid = "c1" /\ rt[k].pc = "cancelled"
  /\ last.op = "session.created"
  /\ Presence("c1") = "none"

\* C18: every start_recording, hard_stop and stop_recording a connected
\* client sends is answered with recording_started, hard_stopped or
\* recording_stopped: when the handler of the command has returned to the
\* receive loop, or has ended, its last step has sent the answer.
Acknowledgement(op) ==
  CASE op = "start_recording" -> "recording_started"
    [] op = "hard_stop" -> "hard_stopped"
    [] op = "stop_recording" -> "recording_stopped"

C18_Acknowledged ==
  (/\ last.op \in {"start_recording", "hard_stop", "stop_recording"}
   /\ ep[last.k].pc \in {"recv", "crashed"})
  => sent = <<[ws |-> last.k, msg |-> [type |-> Acknowledgement(last.op)]]>>

\* C19: start_recording takes its steps in this order: generation + 1 and
\* valid ids emptied with response.cancel sent; after the sleep the buffer
\* clear, whose failure is ignored; then transcripts and last item id
\* cleared, can_accept_audio set and recording_started sent.
\* can_accept_audio does not become true, and no chunk is appended
\* upstream, before the cancel was sent and the clear attempted.
C19_Step ==
  LET L == last'
      k == L.k
      c == ep[k].cid
  IN
  /\ (L.op = "start_recording" /\ L.phase = 1 /\ HasConn(c)) =>
       /\ ep[k].pc = "recv"
       /\ audio_generation'[c] = audio_generation[c] + 1
       /\ valid_audio_item_ids'[c] = {}
       /\ up' = <<UpOp(realtime_connections[c], "response.cancel", <<>>)>>
       /\ sent' = <<>>
       /\ UNCHANGED <<acc_items, last_audio_item_ids, can_accept_audio>>
  /\ (L.op = "start_recording" /\ L.phase = 2) =>
       /\ ep[k].pc = "sr_sleep"
       /\ Len(up') = 1 /\ up'[1].op = "input_audio_buffer.clear"
       /\ ep'[k].pc = "sr_clear"
       /\ sent' = <<>>
       /\ maps' = maps
  /\ (L.op = "start_recording" /\ L.phase = 3) =>
       /\ ep[k].pc = "sr_clear"
       /\ acc_items'[c] = <<>>
       /\ last_audio_item_ids'[c] = NULL
       /\ can_accept_audio'[c]
       /\ sent' = <<[ws |-> k, msg |-> [type |-> "recording_started"]]>>
       /\ up' = <<>>
       /\ UNCHANGED <<audio_generation, valid_audio_item_ids>>
  /\ \A x \in DOMAIN can_accept_audio' :
       (can_accept_audio'[x] /\ ~Get(can_accept_audio, x, FALSE)) =>
         /\ L.op = "start_recording" /\ L.phase = 3
         /\ shake[x] = "cleared"
  /\ (L.op = "audio_chunk" /\ up' # <<>>) => shake[c] = "cleared"

C19_StartRecordingOrder == [][C19_Step]_vars

C19_Witness ==
  /\ last.op = "start_recording"
  /\ last.phase = 3
  /\ can_accept_audio["c1"]
  /\ audio_generation["c1"] = 1
  /\ rt[1].pc = "closed"

\* C20 as stated: the generation of a client goes up by one with every
\* start_recording received and is changed by nothing else while the
\* client is connected.
C20_StepOriginal ==
  LET L == last'
      c == ep[L.k].cid
  IN IF L.op \in {"connect", "disconnect"} THEN TRUE
     ELSE IF L.op = "start_recording" /\ L.phase = 1
       THEN audio_generation'[c] = audio_generation[c] + 1
       ELSE audio_generation' = audio_generation

C20_Step ==
  LET L == last'
      c == ep[L.k].cid
  IN IF L.op = "connect" THEN audio_generation'[ep'[L.k].cid] = 0
     ELSE IF L.op = "disconnect" THEN TRUE
     ELSE IF L.op = "start_recording" /\ L.phase = 1 /\ HasConn(c)
       THEN audio_generation'[c] = audio_generation[c] + 1
       ELSE audio_generation' = audio_generation

C21_Actors ==
  {ep[last'.k].cid, ep'[last'.k].cid, rt[last'.k].cid, rt'[last'.k].cid}

C21_Step ==
  \A x \in Clients \ C21_Actors :
    /\ \A i \in 1..8 : /\ (x \in DOMAIN maps'[i]) = (x \in DOMAIN maps[i])
                       /\ x \in DOMAIN maps[i] => maps'[i][x] = maps[i][x]
    /\ \A j \in Conns : (ep[j].cid = x \/ rt[j].cid = x) =>
                          (ep'[j] = ep[j] /\ rt'[j] = rt[j])
    /\ \A n \in 1..Len(sent') :
         /\ ep[sent'[n].ws].cid # x
         /\ x \in DOMAIN active_connections => sent'[n].ws # active_connections[x]

\* C21: with two clients under different client ids, no command from,
\* upstream event for, or connect or disconnect of one client changes an
\* entry of the other client in any per-client map, moves the other
\* client's tasks, or sends a message to the other client's websocket.
C21_ClientsIsolated == [][C21_Step]_vars

\* Client c2 holds an admitted item, an open gate and generation 1 while
\* client c1 has just finished a hard_stop.
C21_Witness ==
  /\ last.k = 1
  /\ last.op = "hard_stop"
  /\ last.phase = 3
  /\ "c2" \in DOMAIN can_accept_audio
  /\ "c2" \in DOMAIN valid_audio_item_ids
  /\ "c2" \in DOMAIN last_audio_item_ids
  /\ can_accept_audio["c2"]
  /\ valid_audio_item_ids["c2"] = {"i1"}
  /\ last_audio_item_ids["c2"] = "i1"
  /\ ~can_accept_audio["c1"]

\* ---------------------------------------------------------------- C22
\* The dictionaries that connect fills, lines 66-71.
C22_ConnectMaps ==
  <<active_connections, acc_items, last_audio_item_ids, can_accept_audio,
    valid_audio_item_ids, audio_generation>>

\* A connection is open from accept until its endpoint has left the
\* receive loop.
C22_Open(k) == ep[k].pc \notin {"none", "done", "crashed"}

\* C22: while a connection is open, its client id has an entry in every
\* dictionary that connect fills, also when another connection under the
\* same client id has connected and disconnected in the meantime.
C22_EntriesWhileOpen ==
  \A k \in Conns :
    C22_Open(k) => \A i \in 1..6 : ep[k].cid \in DOMAIN C22_ConnectMaps[i]

\* ---------------------------------------------------------------- C23
C23_AtMostOne(valid) == \A c \in DOMAIN valid : Cardinality(valid[c]) <= 1

C23_Step ==
  LET L == last'
      c == rt[L.k].cid
  IN /\ C23_AtMostOne(valid_audio_item_ids)
     /\ C23_AtMostOne(valid_audio_item_ids')
     /\ ( /\ L.op = "response.output_audio.delta"
          /\ Get(valid_audio_item_ids, c, {}) # {}
          /\ L.item \notin Get(valid_audio_item_ids, c, {}) ) =>
          /\ sent' = <<>>
          /\ Get(valid_audio_item_ids', c, {}) = Get(valid_audio_item_ids, c, {})

\* C23: the set of trusted audio item ids of a client never holds more than
\* one item id, and an audio delta of a second item id arriving while the
\* set holds one is dropped and leaves the set as it was.
C23_SingleTrustedItem == [][C23_Step]_vars

\* Item i2 is the trusted one and a delta of item i1 has just been dropped.
C23_Witness ==
  /\ last.op = "response.output_audio.delta"
  /\ last.item = "i1"
  /\ sent = <<>>
  /\ Client1 \in DOMAIN valid_audio_item_ids
  /\ valid_audio_item_ids[Client1] = {"i2"}

\* ---------------------------------------------------------------- C24
\* Two consecutive upstream events of one connection: the first has
\* submitted an output for a call id, so the second submits none for it.
C24_Step ==
  \A id \in {"call1", "call2"} :
    (last'.k = last.k /\ C13_OutputsFor(id) # {}) => C13_OutputsFor(id)' = {}

\* C24: over the lifetime of a connection at most one tool output is
\* submitted upstream for a tool-call id, whatever sequence of
\* content_part.added, requires_action and function_call_arguments.done
\* events mentions the id.
C24_OneOutputPerCall == [][C24_Step]_vars

\* ---------------------------------------------------------------- C25
C25_Step ==
  LET L == last'
      c == rt[L.k].cid
  IN ( /\ L.op \in {"response.output_audio.delta",
                    "response.output_audio_transcript.delta"}
       /\ L.item = watch
       /\ stale[c] = "acked" ) => sent' = <<>>

\* C25: once a hard_stop has been acknowledged with hard_stopped, no
\* audio_delta and no transcript_delta of an item id that was trusted when
\* the hard_stop arrived is forwarded to the client, until the trusted set
\* is reset.
C25_SilentAfterHardStop == [][C25_Step]_vars

====
